---- MODULE Spec2Model ----
(***************************************************************************)
(* Model of the retrieval / tool-calling core of code-sense-ai-agent-mvp.  *)
(*                                                                         *)
(*   shared/tool_agent.py          ToolResult, CodeRetrievalTool, ToolAgent*)
(*   shared/context_providers.py   ConversationContextProvider             *)
(*   generation/generator_enhanced.py  EnhancedCodeSenseGenerator          *)
(*   vectorization/vector_collection.py  VectorCollection                  *)
(*   rag/rag.py, generation/semantic_data_retriever.py   retrieval         *)
(*   llm_providers/utils/prompt_builders.py  PromptBuilder                 *)
(*   llms/anthropic.py, llms/utils/validation.py   fetch_answer            *)
(*   classification/classification_result.py, vectorization/document_utils *)
(*   classification/classification_pipeline.py   _save_results_to_csv      *)
(*   vectorization/semantic_match.py             SemanticMatch             *)
(*                                                                         *)
(* The specifications:                                                     *)
(*                                                                         *)
(*   Spec      the public entry points as written: ToolAgent.execute_tool  *)
(*             called with any tool name, keyword arguments and path over  *)
(*             a small file system, and fetch_coding_advice run end to end *)
(*             (retrieval, construction of the conversation context).      *)
(*   LoopSpec  the loop of _execute_llm_with_tools (lines 64-98) over the  *)
(*             conversation context its line 62 binds, from the values     *)
(*             ConversationContextProvider.__init__ assigns.               *)
(*   ProviderSpec   the operations of a conversation context provider in   *)
(*             any order.                                                  *)
(*   RetrievalSpec  one search, filtered search or retrieval over a        *)
(*             collection that is absent, empty, filled or failing, with   *)
(*             any distances of its documents to the query.                *)
(*   InsertSpec     two callers of add_documents_to_collection on one      *)
(*             collection, any batch of which may fail.                    *)
(*   PromptSpec     the business-context segment of one prompt, over       *)
(*             summaries around the length budget.                         *)
(*   AnswerSpec     one fetch_answer, classify_code or                     *)
(*             prepare_documents_for_embedding over any model text,        *)
(*             transport outcome and confidence value.                     *)
(*   FieldSpec      one list-valued classification field, from the value   *)
(*             the model gave through normalization, the classification    *)
(*             CSV and the metadata of the collection to a context         *)
(*             document.                                                   *)
(*                                                                         *)
(* ConversationContextProvider.__init__ calls _create_orchestrated_prompt  *)
(* (line 73) before it assigns self._tool_agent (line 75), and the prompt  *)
(* reads self._tool_agent (line 130): as written the constructor raises    *)
(* AttributeError, which Spec models.  LoopSpec studies the loop body as a *)
(* unit, which is the code the loop claims are about.                      *)
(***************************************************************************)
EXTENDS Integers, Sequences, FiniteSets, TLC

(***************************************************************************)
(* Bounds of the model.                                                    *)
(***************************************************************************)
\* longest path given to the file-retrieval tool, in segments
MaxPathLen == 3
\* most tool calls one model response requests
MaxCallsPerResponse == 2

(***************************************************************************)
(* Python's None for strings, and for the payload of a ToolResult.         *)
(***************************************************************************)
None == "None"
NoResult == [none |-> TRUE]

(***************************************************************************)
(* The file system the tool runs over.  A node is the sequence of names    *)
(* from "/".  /project is the project root; /project/link is a symbolic    *)
(* link that leaves the root.                                              *)
(***************************************************************************)
ProjectRoot == <<"project">>
Dirs == { <<>>, <<"project">>, <<"project", "sub">>, <<"etc">> }
Files == { <<"project", "a.cs">>, <<"project", "sub", "b.cs">>, <<"etc", "passwd">> }
Links == { <<"project", "link">> }
LinkTarget(node) == <<"etc">>
NoEnt == <<"ENOENT">>

Segments == { "project", "a.cs", "sub", "..", "etc", "passwd", "link", "missing" }

RECURSIVE SeqsUpTo(_, _)
SeqsUpTo(S, n) ==
    IF n = 0 THEN { <<>> }
    ELSE LET shorter == SeqsUpTo(S, n - 1)
         IN  shorter \cup { Append(q, s) : q \in { r \in shorter : Len(r) = n - 1 }, s \in S }

\* a file_path string: absolute (leading "/") or relative, and its segments
PathInputs == [ abs : BOOLEAN, segs : SeqsUpTo(Segments, MaxPathLen) ]

IsPrefix(p, q) == Len(p) <= Len(q) /\ SubSeq(q, 1, Len(p)) = p
Parent(node) == IF node = <<>> THEN <<>> ELSE SubSeq(node, 1, Len(node) - 1)

(***************************************************************************)
(* Path.resolve(): os.path.realpath, not strict.  ".." drops the last      *)
(* resolved component, a symbolic link is replaced by its target, a        *)
(* component that does not exist is kept.                                  *)
(***************************************************************************)
RECURSIVE ResolveFrom(_, _)
ResolveFrom(cur, rest) ==
    IF rest = <<>> THEN cur
    ELSE LET s  == Head(rest)
             np == Append(cur, s)
         IN  IF s = ".." THEN ResolveFrom(Parent(cur), Tail(rest))
             ELSE IF np \in Links THEN ResolveFrom(LinkTarget(np), Tail(rest))
             ELSE ResolveFrom(np, Tail(rest))

Resolve(full) == ResolveFrom(<<>>, full)

(***************************************************************************)
(* The node the operating system reaches for a path (stat, open): every    *)
(* component has to exist, ".." is taken from a directory.                 *)
(***************************************************************************)
RECURSIVE WalkFrom(_, _)
WalkFrom(cur, rest) ==
    IF rest = <<>> THEN cur
    ELSE IF cur \notin Dirs THEN NoEnt
    ELSE LET s  == Head(rest)
             np == Append(cur, s)
         IN  IF s = ".." THEN WalkFrom(Parent(cur), Tail(rest))
             ELSE IF np \in Links THEN WalkFrom(LinkTarget(np), Tail(rest))
             ELSE IF np \in Dirs \cup Files THEN WalkFrom(np, Tail(rest))
             ELSE NoEnt

Walk(full) == WalkFrom(<<>>, full)

\* lines 32-35: a relative path is joined to the project root
FullPath(p) == IF p.abs THEN p.segs ELSE ProjectRoot \o p.segs

\* line 39: full_path.resolve().relative_to(self.project_root.resolve())
WithinRoot(full) == IsPrefix(Resolve(ProjectRoot), Resolve(full))

\* line 66: full_path.relative_to(self.project_root), on the path as given
LexicallyWithinRoot(full) == IsPrefix(ProjectRoot, full)

(***************************************************************************)
(* ToolResult (lines 8-15) as the tool builds it.                          *)
(***************************************************************************)
ToolResult(name, success, result, error, time) ==
    [ tool_name |-> name, success |-> success, result |-> result,
      error |-> error, execution_time |-> time ]

Raised(exc) == [ raised |-> exc ]
IsRaised(r) == "raised" \in DOMAIN r

CodeToolName == "get_code_by_filepath"

\* a check that compares the path as written, without resolving it
CodeRetrievalExecuteUnresolved(p) ==
    LET full == FullPath(p)
        node == Walk(full)
    IN  IF ~LexicallyWithinRoot(full)
        THEN ToolResult(CodeToolName, FALSE, NoResult, "outside project root for security", None)
        ELSE IF node = NoEnt
        THEN ToolResult(CodeToolName, FALSE, NoResult, "File not found", None)
        ELSE IF node \in Dirs
        THEN ToolResult(CodeToolName, FALSE, NoResult, "IsADirectoryError", "set")
        ELSE ToolResult(CodeToolName, TRUE,
                        [ file_path |-> full,
                          relative_path |-> SubSeq(full, Len(ProjectRoot) + 1, Len(full)),
                          content |-> node ],
                        None, "set")

\* a tool that looks for the file before it checks the containment
CodeRetrievalExecuteExistsFirst(p) ==
    LET full == FullPath(p)
        node == Walk(full)
    IN  IF node = NoEnt
        THEN ToolResult(CodeToolName, FALSE, NoResult, "File not found", None)
        ELSE IF ~WithinRoot(full)
        THEN ToolResult(CodeToolName, FALSE, NoResult, "outside project root for security", None)
        ELSE IF node \in Dirs
        THEN ToolResult(CodeToolName, FALSE, NoResult, "IsADirectoryError", "set")
        ELSE IF ~LexicallyWithinRoot(full)
        THEN ToolResult(CodeToolName, FALSE, NoResult, "ValueError: not in the subpath", "set")
        ELSE ToolResult(CodeToolName, TRUE,
                        [ file_path |-> full,
                          relative_path |-> SubSeq(full, Len(ProjectRoot) + 1, Len(full)),
                          content |-> node ],
                        None, "set")

\* CodeRetrievalTool.execute(file_path) for a string file_path
CodeRetrievalExecute(p) ==
    LET full == FullPath(p)
        node == Walk(full)
    IN  IF ~WithinRoot(full)
        THEN \* lines 40-46
             ToolResult(CodeToolName, FALSE, NoResult, "outside project root for security", None)
        ELSE IF node = NoEnt
        THEN \* lines 49-55
             ToolResult(CodeToolName, FALSE, NoResult, "File not found", None)
        ELSE IF node \in Dirs
        THEN \* line 58 raises IsADirectoryError, lines 82-90
             ToolResult(CodeToolName, FALSE, NoResult, "IsADirectoryError", "set")
        ELSE IF ~LexicallyWithinRoot(full)
        THEN \* line 66 raises ValueError, lines 82-90
             ToolResult(CodeToolName, FALSE, NoResult, "ValueError: not in the subpath", "set")
        ELSE \* lines 57-80
             ToolResult(CodeToolName, TRUE,
                        [ file_path |-> full,
                          relative_path |-> SubSeq(full, Len(ProjectRoot) + 1, Len(full)),
                          content |-> node ],
                        None, "set")

(***************************************************************************)
(* A tool call: the tool name and the keyword arguments.                   *)
(*   kw = "file_path"   execute(file_path=<path>)                          *)
(*   kw = "nonstr"      execute(file_path=None)                            *)
(*   kw = "missing"     execute()                                          *)
(*   kw = "extra"       execute(file_path=<path>, other=...)               *)
(***************************************************************************)
ToolNames == { CodeToolName, "no_such_tool" }
KwShapes == { "file_path", "nonstr", "missing", "extra" }

ToolCall(name, kw, p) == [ tool_name |-> name, kw |-> kw, path |-> p ]

\* execute_tool that reports an unknown tool without an error message
ToolAgentExecuteToolNoError(call) ==
    IF call.tool_name # CodeToolName
    THEN ToolResult(call.tool_name, FALSE, NoResult, None, None)
    ELSE IF call.kw \in { "missing", "extra" } THEN Raised("TypeError")
    ELSE IF call.kw = "nonstr"
    THEN ToolResult(CodeToolName, FALSE, NoResult, "TypeError: expected str", "set")
    ELSE CodeRetrievalExecute(call.path)

\* ToolAgent.execute_tool(tool_name, **kwargs)
ToolAgentExecuteTool(call) ==
    IF call.tool_name # CodeToolName
    THEN \* lines 130-136
         ToolResult(call.tool_name, FALSE, NoResult, "Unknown tool", None)
    ELSE \* line 138: self.tools[tool_name].execute(**kwargs); binding the
         \* keyword arguments to execute(self, file_path) happens outside the
         \* tool's try block
         IF call.kw \in { "missing", "extra" } THEN Raised("TypeError")
         ELSE IF call.kw = "nonstr"
         THEN \* line 32 raises TypeError inside the try, lines 82-90
              ToolResult(CodeToolName, FALSE, NoResult, "TypeError: expected str", "set")
         ELSE CodeRetrievalExecute(call.path)

(***************************************************************************)
(* State.                                                                  *)
(*   lastCall, lastResult   the latest ToolAgent.execute_tool call and     *)
(*                          what it produced (a ToolResult or a raise)     *)
(*   reqPc, reqOutcome      fetch_coding_advice run end to end             *)
(*   pc, iteration          position in _execute_llm_with_tools, and the   *)
(*                          loop variable of line 64                       *)
(*   modelCalls             calls of self._llm.fetch_answer in this run    *)
(*   llmResponse            llm_response of line 67                        *)
(*   pending                tool_calls of line 74 not yet executed         *)
(*   history, allResponses, toolResponses                                  *)
(*                          _conversation_history, _all_responses and      *)
(*                          _tool_responses of the conversation context    *)
(*   outcome                how the run ended: a returned value or a raise *)
(*   requested              every tool call parsed so far, in order        *)
(*   prompt                 what the latest build_prompt returned           *)
(*   index                  the collection behind the adapter               *)
(*   distances              the distance of each document of the collection *)
(*                          to the query, in the order the index ranks them *)
(*   searchPc, searchCall, searchResult, retrievalOutcome                   *)
(*                          one retrieval: where it stands, the search the  *)
(*                          adapter was asked for, what the adapter         *)
(*                          returned, and how the retrieval ended           *)
(*   docCount, batchStart, attempts, insertPc                               *)
(*                          per caller of add_documents_to_collection: the  *)
(*                          len of its documents, the loop variable i of    *)
(*                          line 19, the batches tried so far, and where    *)
(*                          the call stands                                 *)
(*   stored                 the text and metadata the collection holds      *)
(*                          under each id                                   *)
(*   lastWrite              the caller of the latest add that returned for  *)
(*                          each id                                         *)
(*   summaryLen, segment    the length of a business-context summary, and   *)
(*                          the segment a prompt builder made of it         *)
(*   reply, answer          how a request to the model ends and the text it *)
(*                          returns, and what fetch_answer made of it       *)
(*   confIn, confOut        a confidence value as it comes in, and as it is *)
(*                          returned or stored                              *)
(*   fieldIn, fieldOut      the value of a list-valued classification field *)
(*                          as it comes in, and the list made of it         *)
(*   csvCell, metaField     the field as the cell of the classification CSV *)
(*                          and as the metadata string of the collection    *)
(*   contextField           the field as a retrieved context document has   *)
(*                          it                                              *)
(***************************************************************************)
VARIABLES lastCall, lastResult, reqPc, reqOutcome,
          prompt,
          index, distances, searchPc, searchCall, searchResult, retrievalOutcome,
          docCount, batchStart, attempts, insertPc, stored, lastWrite,
          summaryLen, segment,
          reply, confIn, answer, confOut,
          fieldIn, fieldOut, csvCell, metaField, contextField,
          pc, iteration, modelCalls, llmResponse, pending,
          history, allResponses, toolResponses, outcome, requested

toolVars == << lastCall, lastResult >>
reqVars  == << reqPc, reqOutcome >>
loopVars == << pc, iteration, modelCalls, llmResponse, pending,
               history, allResponses, toolResponses, outcome, requested, prompt >>
searchVars == << index, distances, searchPc, searchCall, searchResult, retrievalOutcome >>
insertVars == << docCount, batchStart, attempts, insertPc, stored, lastWrite >>
promptVars == << summaryLen, segment >>
answerVars == << reply, confIn, answer, confOut >>
fieldVars == << fieldIn, fieldOut, csvCell, metaField, contextField >>
unitVars == << searchVars, insertVars, promptVars, answerVars, fieldVars >>
vars == << toolVars, reqVars, loopVars, unitVars >>

\* self._max_tool_iterations
MaxToolIterations == 3

NoCall == [ tool_name |-> None, kw |-> None, path |-> [ abs |-> FALSE, segs |-> <<>> ] ]
NoResponse == [ id |-> 0, kind |-> "none", calls |-> <<>> ]
Running == [ kind |-> "running", value |-> NoResponse, exc |-> None ]
Returned(v) == [ kind |-> "returned", value |-> v, exc |-> None ]
RaisedOutcome(e) == [ kind |-> "raised", value |-> NoResponse, exc |-> e ]

(***************************************************************************)
(* ConversationContextProvider                                             *)
(***************************************************************************)
\* _create_orchestrated_prompt: the one initial fragment
InitialHistory == << [ kind |-> "init", id |-> 0, results |-> <<>> ] >>

\* an add_llm_response that keeps no record of the response
AddLlmResponseSkipped(h, resp) == h

\* add_llm_response
AddLlmResponse(h, resp) == Append(h, [ kind |-> "llm", id |-> resp.id, results |-> <<>> ])

\* an add_tool_response that keeps successful results only
AddToolResponseSuccessOnly(list, r) == IF r.success THEN Append(list, r) ELSE list

\* add_tool_response, for each of its two lists
AddToolResponse(list, r) == Append(list, r)

\* _update_conversation_history, called first by build_prompt
UpdateConversationHistory(h, tr) ==
    IF Len(tr) = 0 THEN h
    ELSE Append(h, [ kind |-> "tools", id |-> 0, results |-> tr ])

\* line 87: the slice [-3:]
ExaminedLimit == 3
\* line 94: the slice [:1000]
SnippetLimit == 1000

Min(a, b) == IF a < b THEN a ELSE b

\* the first elements of a sequence: s[:n]
FirstN(s, n) == IF Len(s) <= n THEN s ELSE SubSeq(s, 1, n)

\* line 87: s[-n:]
LastN(s, n) == IF Len(s) <= n THEN s ELSE SubSeq(s, Len(s) - n + 1, Len(s))

\* len(content) of a file: a.cs is longer than the snippet limit, every
\* other file is short
ContentLength(node) == IF node = << "project", "a.cs" >> THEN SnippetLimit + 1 ELSE Len(node)

\* line 87: r.success
Succeeded(r) == r.success

\* lines 86-95: the entries of the EXAMINED CODE section; a successful result
\* of the file tool always has a non-empty payload with a content key
ExaminedCode(all) ==
    LET latest == LastN(SelectSeq(all, Succeeded), ExaminedLimit)
    IN  [ i \in 1..Len(latest) |->
            [ relative_path |-> latest[i].result.relative_path,
              file |-> latest[i].result.content,
              chars |-> Min(ContentLength(latest[i].result.content), SnippetLimit) ] ]

\* no prompt was built yet
NoPrompt == [ fragments |-> <<>>, examined |-> <<>>, closing |-> None ]

\* build_prompt, lines 82-101, on the history that line 80 updated: the
\* returned text is made of fragments of the history, the examined code and
\* a closing instruction
BuildPrompt(h, all) ==
    IF Len(h) = 1
    THEN [ fragments |-> << h[1] >>, examined |-> <<>>, closing |-> None ]
    ELSE IF ExaminedCode(all) # <<>>
    THEN [ fragments |-> << h[1] >>, examined |-> ExaminedCode(all), closing |-> "final" ]
    ELSE [ fragments |-> << h[1] >>, examined |-> <<>>, closing |-> "guidance" ]

(***************************************************************************)
(* The generating model and the tool-call parser.  A response is nothing   *)
(* (falsy), a final answer, or a text that requests tool calls.            *)
(***************************************************************************)
\* the calls a response may request: a file in the root, a file outside it,
\* and a call that leaves out file_path
LoopCalls ==
    { ToolCall(CodeToolName, "file_path", [ abs |-> FALSE, segs |-> << "a.cs" >> ]),
      ToolCall(CodeToolName, "file_path", [ abs |-> TRUE, segs |-> << "etc", "passwd" >> ]),
      ToolCall(CodeToolName, "missing", [ abs |-> FALSE, segs |-> <<>> ]) }

CallSeqs == SeqsUpTo(LoopCalls, MaxCallsPerResponse) \ { <<>> }

Responses(n) ==
    { [ id |-> n, kind |-> "none", calls |-> <<>> ],
      [ id |-> n, kind |-> "final", calls |-> <<>> ] }
    \cup { [ id |-> n, kind |-> "tools", calls |-> cs ] : cs \in CallSeqs }

\* ToolAgent.parse_tool_calls_from_response
ParseToolCallsFromResponse(resp) == resp.calls

(***************************************************************************)
(* EnhancedCodeSenseGenerator._execute_llm_with_tools                      *)
(***************************************************************************)
\* a loop that goes on for as long as the model asks for tools
LoopContinuesUnbounded(i) == TRUE

\* line 64: for iteration in range(self._max_tool_iterations)
LoopContinues(i) == i < MaxToolIterations

\* a parse step that asks the model again when it found no tool call
AfterParseContinues(calls) == IF calls = <<>> THEN "await" ELSE "exec"

\* lines 76-78: no tool calls, the response is returned
AfterParse(calls) == IF calls = <<>> THEN "done" ELSE "exec"

\* line 96 reads current_prompt, a name that is bound nowhere in the function
CurrentPromptBound == FALSE

\* line 67, and the build_prompt that fetch_answer starts with
FetchAnswer ==
    /\ pc = "await"
    /\ history' = UpdateConversationHistory(history, toolResponses)
    /\ modelCalls' = modelCalls + 1
    /\ \E resp \in Responses(modelCalls + 1) : llmResponse' = resp
    /\ prompt' = BuildPrompt(UpdateConversationHistory(history, toolResponses), allResponses)
    /\ pc' = "respond"
    /\ UNCHANGED << iteration, pending, allResponses, toolResponses, outcome, requested >>
    /\ UNCHANGED << toolVars, reqVars, unitVars >>

\* lines 68-71
HandleResponse ==
    /\ pc = "respond"
    /\ IF llmResponse.kind # "none"
       THEN /\ history' = AddLlmResponse(history, llmResponse)
            /\ pc' = "parse"
       ELSE /\ pc' = "after_loop"
            /\ UNCHANGED history
    /\ UNCHANGED << iteration, modelCalls, llmResponse, pending, allResponses,
                    toolResponses, outcome, requested, prompt >>
    /\ UNCHANGED << toolVars, reqVars, unitVars >>

\* lines 74-80
ParseToolCalls ==
    /\ pc = "parse"
    /\ LET calls == ParseToolCallsFromResponse(llmResponse)
       IN  /\ pc' = AfterParse(calls)
           /\ IF AfterParse(calls) = "done"
              THEN /\ outcome' = Returned(llmResponse)
                   /\ UNCHANGED << pending, requested >>
              ELSE /\ pending' = calls
                   /\ requested' = requested \o calls
                   /\ UNCHANGED outcome
    /\ UNCHANGED << iteration, modelCalls, llmResponse, history, allResponses, toolResponses,
                    prompt >>
    /\ UNCHANGED << toolVars, reqVars, unitVars >>

\* where the loop goes after the body of iteration i
NextIterationPc(i) == IF LoopContinues(i + 1) THEN "await" ELSE "after_loop"

\* lines 82-92, one tool call; after the last one the for loop steps on
ExecuteToolCall ==
    /\ pc = "exec"
    /\ LET call == Head(pending)
           r    == ToolAgentExecuteTool(call)
       IN  /\ lastCall' = call
           /\ lastResult' = r
           /\ IF IsRaised(r)
              THEN /\ pc' = "done"
                   /\ outcome' = RaisedOutcome(r.raised)
                   /\ UNCHANGED << iteration, pending, allResponses, toolResponses >>
              ELSE /\ allResponses' = AddToolResponse(allResponses, r)
                   /\ toolResponses' = AddToolResponse(toolResponses, r)
                   /\ pending' = Tail(pending)
                   /\ IF Len(pending) = 0 \/ Tail(pending) = <<>>
                      THEN /\ iteration' = iteration + 1
                           /\ pc' = NextIterationPc(iteration)
                      ELSE /\ pc' = "exec"
                           /\ UNCHANGED iteration
                   /\ UNCHANGED outcome
    /\ UNCHANGED << modelCalls, llmResponse, history, requested, prompt >>
    /\ UNCHANGED << reqVars, unitVars >>

\* lines 94-98
ForcedFinal ==
    /\ pc = "after_loop"
    /\ IF CurrentPromptBound
       THEN /\ history' = UpdateConversationHistory(history, toolResponses)
            /\ prompt' = BuildPrompt(UpdateConversationHistory(history, toolResponses), allResponses)
            /\ modelCalls' = modelCalls + 1
            /\ \E resp \in Responses(modelCalls + 1) :
                 /\ llmResponse' = resp
                 /\ outcome' = Returned(resp)
       ELSE /\ outcome' = RaisedOutcome("NameError")
            /\ UNCHANGED << history, modelCalls, llmResponse, prompt >>
    /\ pc' = "done"
    /\ UNCHANGED << iteration, pending, allResponses, toolResponses, requested >>
    /\ UNCHANGED << toolVars, reqVars, unitVars >>

(***************************************************************************)
(* The conversation context provider used directly: tool results and model *)
(* responses are added and prompts are built in any order.                 *)
(***************************************************************************)
\* most tool results added to one provider
MaxToolResults == 4
\* most prompts built from one provider
MaxPrompts == 2

\* the results added: a long file, a short file, and a refused path
ProviderResults ==
    { ToolAgentExecuteTool(ToolCall(CodeToolName, "file_path", p)) :
        p \in { [ abs |-> FALSE, segs |-> << "a.cs" >> ],
                [ abs |-> FALSE, segs |-> << "sub", "b.cs" >> ],
                [ abs |-> TRUE, segs |-> << "etc", "passwd" >> ] } }

\* add_tool_response, lines 106-108
ProviderAddToolResponse ==
    /\ Len(allResponses) < MaxToolResults
    /\ \E r \in ProviderResults :
         /\ allResponses' = AddToolResponse(allResponses, r)
         /\ toolResponses' = AddToolResponse(toolResponses, r)
    /\ UNCHANGED << pc, iteration, modelCalls, llmResponse, pending, history, outcome,
                    requested, prompt >>
    /\ UNCHANGED << toolVars, reqVars, unitVars >>

\* add_llm_response, lines 103-104, with the answer to the latest prompt
ProviderAddLlmResponse ==
    /\ modelCalls > 0
    /\ llmResponse.id # modelCalls
    /\ llmResponse' = [ id |-> modelCalls, kind |-> "tools", calls |-> <<>> ]
    /\ history' = AddLlmResponse(history, [ id |-> modelCalls, kind |-> "tools", calls |-> <<>> ])
    /\ UNCHANGED << pc, iteration, modelCalls, pending, allResponses, toolResponses, outcome,
                    requested, prompt >>
    /\ UNCHANGED << toolVars, reqVars, unitVars >>

\* build_prompt, lines 77-101, as fetch_answer calls it
ProviderBuildPrompt ==
    /\ modelCalls < MaxPrompts
    /\ modelCalls' = modelCalls + 1
    /\ history' = UpdateConversationHistory(history, toolResponses)
    /\ prompt' = BuildPrompt(UpdateConversationHistory(history, toolResponses), allResponses)
    /\ UNCHANGED << pc, iteration, llmResponse, pending, allResponses, toolResponses, outcome,
                    requested >>
    /\ UNCHANGED << toolVars, reqVars, unitVars >>

(***************************************************************************)
(* The entry points as written.                                            *)
(***************************************************************************)
\* ToolAgent.execute_tool called by a client; the agent keeps no state between
\* calls, so one call a behaviour covers them all
ExecuteTool ==
    /\ lastCall = NoCall
    /\ \E name \in ToolNames, kw \in KwShapes, p \in PathInputs :
         /\ lastCall' = ToolCall(name, kw, p)
         /\ lastResult' = ToolAgentExecuteTool(ToolCall(name, kw, p))
    /\ UNCHANGED << reqVars, loopVars, unitVars >>

\* fetch_coding_advice, lines 25-30, and _fetch_llm_answer, lines 50-55
RetrieveContext ==
    /\ reqPc = "start"
    /\ reqPc' = "construct"
    /\ UNCHANGED << reqOutcome, toolVars, loopVars, unitVars >>

\* line 62: ConversationContextProvider.__init__ reads self._tool_agent (line
\* 130, called from line 73) before line 75 assigns it
ConstructContext ==
    /\ reqPc = "construct"
    /\ reqPc' = "ended"
    /\ reqOutcome' = RaisedOutcome("AttributeError")
    /\ UNCHANGED << toolVars, loopVars, unitVars >>

(***************************************************************************)
(* The vector collection adapter and the retrieval built on it.            *)
(***************************************************************************)
\* most documents the collection holds
MaxIndexDocs == 4
\* most results a client asks semantic_search for
MaxResults == 5

\* rag.py line 32: n_results=3
RagResults == 3
\* semantic_data_retriever.py line 5
TOP_K_RETRIEVAL == 5

\* get_collection found no collection and returned EmptyVectorCollection,
\* whose _collection is None
AbsentIndex == [ present |-> FALSE, docs |-> 0, failing |-> FALSE ]

\* the collection behind the adapter: absent, or a collection of docs
\* documents whose query raises when failing
Indexes == { AbsentIndex } \cup [ present : { TRUE }, docs : 0..MaxIndexDocs, failing : BOOLEAN ]

Queries == { "add points expiration", "" }

\* the dict semantic_search returns: its keys, and the values under them
\* the lists of an answer of the index, one position a match
QueryResult(ids, documents, dists) ==
    [ ids |-> ids, documents |-> documents, distances |-> dists ]
EmptyQueryResult == QueryResult(<<>>, <<>>, <<>>)

SearchDict(keys, error, query, res) ==
    [ type |-> "dict", keys |-> keys, error |-> error, query |-> query,
      ids |-> res.ids, documents |-> res.documents, distances |-> res.distances,
      total_results |-> Len(res.ids) ]

NoSearch == [ query |-> None, n_results |-> 0 ]
NoSearchResult == [ type |-> None, keys |-> {}, error |-> None, query |-> None,
                    ids |-> <<>>, documents |-> <<>>, distances |-> <<>>,
                    total_results |-> 0 ]

\* collection.query: the n nearest documents, nearest first
IndexQuery(idx, n) == [ i \in 1..Min(idx.docs, n) |-> i ]

\* the distances a query may have to a document; two documents may be
\* equally far
Distances == { 1, 2 }

\* where={'file_type': ...}, and the file type in the metadata of a document
Filters == { "Controller", "Service" }
FileType(id) == IF id % 2 = 1 THEN "Controller" ELSE "Service"

\* collection.query with include documents, metadatas, distances: the
\* document stored under id i is i, and ds[i] is its distance
CollectionQuery(idx, ds, n) ==
    QueryResult(IndexQuery(idx, n), IndexQuery(idx, n),
                [ i \in 1..Len(IndexQuery(idx, n)) |-> ds[i] ])

\* collection.query with where=filters: the matches that pass the filter, in
\* the order of the index
CollectionQueryWhere(idx, ds, filt, n) ==
    LET Passes(id) == FileType(id) = filt
        all == SelectSeq([ i \in 1..idx.docs |-> i ], Passes)
        ids == SubSeq(all, 1, Min(Len(all), n))
    IN  QueryResult(ids, ids, [ i \in 1..Len(ids) |-> ds[ids[i]] ])

\* a loop over the matches that takes them last to first
ZipResultsReversed(res) ==
    LET k == Min(Len(res.ids), Min(Len(res.documents), Len(res.distances)))
    IN  [ i \in 1..k |->
            [ rank |-> i, id |-> res.ids[k + 1 - i], document |-> res.documents[k + 1 - i],
              distance |-> res.distances[k + 1 - i] ] ]

\* the loop over zip(ids, documents, metadatas, distances) that builds one
\* record a match: filtered_retrieval lines 110-131, get_relevant_context
\* lines 26-53, get_context_docs lines 51-78
ZipResults(res) ==
    LET k == Min(Len(res.ids), Min(Len(res.documents), Len(res.distances)))
    IN  [ i \in 1..k |->
            [ rank |-> i, id |-> res.ids[i], document |-> res.documents[i],
              distance |-> res.distances[i] ] ]

\* the lists of the records of a loop over the matches
Columns(docs) ==
    QueryResult([ i \in 1..Len(docs) |-> docs[i].id ],
                [ i \in 1..Len(docs) |-> docs[i].document ],
                [ i \in 1..Len(docs) |-> docs[i].distance ])

\* VectorCollection.filtered_retrieval(query, filters, n_results)
FilteredRetrieval(idx, ds, query, filt, n) ==
    IF ~idx.present
    THEN \* line 93 reads query of None inside the try; lines 144-152
         SearchDict({ "query", "filters", "error", "results", "summary" }, "AttributeError",
                    query, EmptyQueryResult)
    ELSE IF idx.failing
    THEN \* line 93 raises; lines 144-152
         SearchDict({ "query", "filters", "error", "results", "summary" }, "index error",
                    query, EmptyQueryResult)
    ELSE IF CollectionQueryWhere(idx, ds, filt, n).ids = <<>>
    THEN \* lines 100-106
         SearchDict({ "query", "filters", "results", "summary" }, None, query, EmptyQueryResult)
    ELSE \* lines 110-142
         SearchDict({ "query", "filters", "results", "summary" }, None, query,
                    Columns(ZipResults(CollectionQueryWhere(idx, ds, filt, n))))

\* VectorCollection.semantic_search(query, n_results)
SemanticSearch(idx, ds, query, n) ==
    IF ~idx.present
    THEN \* line 50 reads query of None inside the try; lines 80-82
         SearchDict({ "error" }, "AttributeError", None, EmptyQueryResult)
    ELSE IF idx.failing
    THEN \* line 50 raises; lines 80-82
         SearchDict({ "error" }, "index error", None, EmptyQueryResult)
    ELSE \* lines 70-78
         SearchDict({ "query", "results", "summary" }, None, query, CollectionQuery(idx, ds, n))

\* RagQueryResult.get_business_context, line 16: the method is looked up on
\* matches, and BasicContentRag sets matches to the dict of semantic_search
GetBusinessContext(matches) ==
    IF matches.type = "SemanticMatch"
    THEN [ docs |-> matches.ids ]
    ELSE Raised("AttributeError")

\* how a retrieval ended: the model was called with a context, or a raise
NoContext == [ none |-> TRUE, docs |-> <<>> ]
Context(docs) == [ none |-> docs = <<>>, docs |-> docs ]
RetrievalRunning == [ kind |-> "running", exc |-> None, context |-> NoContext ]
RetrievalRaised(e) == [ kind |-> "raised", exc |-> e, context |-> NoContext ]
ContextDocs(c) == [ kind |-> "context", exc |-> None, context |-> c ]
ModelCalled(c) == [ kind |-> "model_called", exc |-> None, context |-> c ]

\* a client calls VectorCollection.semantic_search
SemanticSearchCall ==
    /\ searchPc = "start"
    /\ \E q \in Queries, n \in 1..MaxResults :
         /\ searchCall' = [ query |-> q, n_results |-> n ]
         /\ searchResult' = SemanticSearch(index, distances, q, n)
    /\ searchPc' = "searched"
    /\ UNCHANGED << index, distances, retrievalOutcome >>
    /\ UNCHANGED << toolVars, reqVars, loopVars, insertVars, promptVars, answerVars, fieldVars >>

\* a client calls VectorCollection.filtered_retrieval
FilteredRetrievalCall ==
    /\ searchPc = "start"
    /\ \E q \in Queries, filt \in Filters, n \in 1..MaxResults :
         /\ searchCall' = [ query |-> q, n_results |-> n ]
         /\ searchResult' = FilteredRetrieval(index, distances, q, filt, n)
    /\ searchPc' = "searched"
    /\ UNCHANGED << index, distances, retrievalOutcome >>
    /\ UNCHANGED << toolVars, reqVars, loopVars, insertVars, promptVars, answerVars, fieldVars >>

\* CodeSenseGenerator.fetch_coding_advice line 26:
\* BasicContentRag.retrieve_relevant_context
BasicRetrieve ==
    /\ searchPc = "start"
    /\ \E q \in Queries :
         /\ searchCall' = [ query |-> q, n_results |-> RagResults ]
         /\ searchResult' = SemanticSearch(index, distances, q, RagResults)
    /\ searchPc' = "retrieved"
    /\ UNCHANGED << index, distances, retrievalOutcome >>
    /\ UNCHANGED << toolVars, reqVars, loopVars, insertVars, promptVars, answerVars, fieldVars >>

\* FilteredContentRag.retrieve_relevant_context, line 42:
\* filtered_semantic_search is no method of VectorCollection
FilteredRetrieve ==
    /\ searchPc = "start"
    /\ searchPc' = "ended"
    /\ retrievalOutcome' = RetrievalRaised("AttributeError")
    /\ UNCHANGED << index, distances, searchCall, searchResult >>
    /\ UNCHANGED << toolVars, reqVars, loopVars, insertVars, promptVars, answerVars, fieldVars >>

\* fetch_coding_advice lines 29-30: fetch_answer starts with
\* context_provider.build_prompt(), outside its try, and build_prompt starts
\* with get_business_context (context_providers.py line 17)
FetchSingleShotAnswer ==
    /\ searchPc = "retrieved"
    /\ LET ctx == GetBusinessContext(searchResult)
       IN  retrievalOutcome' = IF IsRaised(ctx)
                               THEN RetrievalRaised(ctx.raised)
                               ELSE ModelCalled(Context(ctx.docs))
    /\ searchPc' = "ended"
    /\ UNCHANGED << index, distances, searchCall, searchResult >>
    /\ UNCHANGED << toolVars, reqVars, loopVars, insertVars, promptVars, answerVars, fieldVars >>

\* generate_complete_suggestion line 26:
\* SemanticDataRetriever.get_relevant_context
GetRelevantContext ==
    /\ searchPc = "start"
    /\ \E q \in Queries :
         LET d == SemanticSearch(index, distances, q, TOP_K_RETRIEVAL)
         IN  /\ searchCall' = [ query |-> q, n_results |-> TOP_K_RETRIEVAL ]
             /\ searchResult' = d
             /\ retrievalOutcome' =
                  IF "results" \notin d.keys
                  THEN \* line 19 raises KeyError; lines 61-63
                       ContextDocs(NoContext)
                  ELSE \* lines 20-22 and 59
                       ContextDocs(Context(ZipResults(d)))
    /\ searchPc' = "context"
    /\ UNCHANGED << index, distances >>
    /\ UNCHANGED << toolVars, reqVars, loopVars, insertVars, promptVars, answerVars, fieldVars >>

\* generate_complete_suggestion lines 28-33: the model is called with the
\* context documents, or with none
SuggestImplementation ==
    /\ searchPc = "context"
    /\ retrievalOutcome' = ModelCalled(retrievalOutcome.context)
    /\ searchPc' = "ended"
    /\ UNCHANGED << index, distances, searchCall, searchResult >>
    /\ UNCHANGED << toolVars, reqVars, loopVars, insertVars, promptVars, answerVars, fieldVars >>

(***************************************************************************)
(* VectorCollection.add_documents_to_collection.  Two callers insert into  *)
(* the same collection; caller c inserts documents with the ids 1..n, each *)
(* carrying c as its text and metadata.                                    *)
(***************************************************************************)
\* vector_collection.py line 6
BATCH_SIZE == 100
\* most full batches one call inserts
MaxBatches == 2

Callers == { "A", "B" }
\* len(documents) of the first caller: around every multiple of the batch size
DocCounts == { b * BATCH_SIZE + r : b \in 0..MaxBatches, r \in { 0, 1, BATCH_SIZE - 1 } }
\* len(documents) of the second caller
SecondDocCounts == { 0, 1, BATCH_SIZE + 1 }

DocIds == 1..(MaxBatches * BATCH_SIZE + BATCH_SIZE - 1)

\* a collection that exists and holds nothing yet
EmptyIndex == [ present |-> TRUE, docs |-> 0, failing |-> FALSE ]

\* line 20: documents[i:i + BATCH_SIZE], as the ids of the batch
Batch(i, n) == (i + 1)..Min(i + BATCH_SIZE, n)

\* a loop that gives up at the first batch that fails
NextBatchStartAbortOnFailure(i, n, ok) == IF ok THEN i + BATCH_SIZE ELSE n

\* line 19: range(0, total_docs, BATCH_SIZE) steps on, and line 39 continues
\* with it after a failure
NextBatchStart(i, n, ok) == i + BATCH_SIZE

\* self._collection.add(ids, documents, metadatas) that returned: the index
\* keeps what it already holds under an id and adds the other documents
IndexAdd(st, ids, version) ==
    [ id \in DocIds |-> IF id \in ids /\ st[id] = None THEN version ELSE st[id] ]

\* lines 19-39, one pass of the loop of caller c
AddBatch(c) ==
    /\ insertPc[c] = "loop"
    /\ batchStart[c] < docCount[c]
    /\ \E ok \in IF index.present THEN BOOLEAN ELSE { FALSE } :
         LET ids == Batch(batchStart[c], docCount[c])
         IN  /\ attempts' = [ attempts EXCEPT ![c] =
                   Append(@, [ start |-> batchStart[c], size |-> Cardinality(ids), ok |-> ok ]) ]
             /\ stored' = IF ok THEN IndexAdd(stored, ids, c) ELSE stored
             /\ lastWrite' = IF ok
                             THEN [ id \in DocIds |-> IF id \in ids THEN c ELSE lastWrite[id] ]
                             ELSE lastWrite
             /\ batchStart' = [ batchStart EXCEPT ![c] = NextBatchStart(@, docCount[c], ok) ]
    /\ UNCHANGED << docCount, insertPc >>
    /\ UNCHANGED << toolVars, reqVars, loopVars, searchVars, promptVars, answerVars, fieldVars >>

\* line 41, after the loop: self._collection.count() is read outside any try
\* and raises AttributeError on the None of an EmptyVectorCollection
CountDocuments(c) ==
    /\ insertPc[c] = "loop"
    /\ batchStart[c] >= docCount[c]
    /\ insertPc' = [ insertPc EXCEPT ![c] = IF index.present THEN "returned" ELSE "raised" ]
    /\ UNCHANGED << docCount, batchStart, attempts, stored, lastWrite >>
    /\ UNCHANGED << toolVars, reqVars, loopVars, searchVars, promptVars, answerVars, fieldVars >>

InsertIdle ==
    /\ docCount = [ c \in Callers |-> 0 ]
    /\ batchStart = [ c \in Callers |-> 0 ]
    /\ attempts = [ c \in Callers |-> <<>> ]
    /\ insertPc = [ c \in Callers |-> "returned" ]
    /\ stored = [ id \in DocIds |-> None ]
    /\ lastWrite = [ id \in DocIds |-> None ]

(***************************************************************************)
(* The business-context segment of a prompt.  A text is its length in      *)
(* characters and whether it ends with the truncation marker.              *)
(***************************************************************************)
\* prompt_builders.py line 3, context_providers.py line 6
MAX_CONTEXT_LENGTH == 8000
\* how far around the budget the summary lengths range
MaxExcess == 20

\* len("\n... [truncated]"), prompt_builders.py line 97
TruncationMarkerLength == 16
\* len("No relevant context found."), prompt_builders.py line 66
NoContextTextLength == 26

\* len of the joined summary parts; 0 when nothing was retrieved
SummaryLengths ==
    { 0 } \cup ((MAX_CONTEXT_LENGTH - MaxExcess)..(MAX_CONTEXT_LENGTH + MaxExcess))

Text(builder, len, marker) == [ builder |-> builder, len |-> len, marker |-> marker ]
NoSegment == Text(None, 0, FALSE)

\* PromptBuilder._build_context_summary
BuildContextSummary(len) ==
    IF len = 0
    THEN \* lines 65-66
         Text("PromptBuilder", NoContextTextLength, FALSE)
    ELSE IF len > MAX_CONTEXT_LENGTH
    THEN \* lines 96-97
         Text("PromptBuilder", MAX_CONTEXT_LENGTH + TruncationMarkerLength, TRUE)
    ELSE Text("PromptBuilder", len, FALSE)

\* SemanticMatch.build_business_context_summary, as
\* BusinessContextProvider.build_prompt embeds it (lines 17 and 25)
BusinessContextSegment(len) == Text("BusinessContextProvider", len, FALSE)

\* the same summary, as _create_orchestrated_prompt embeds it (line 133)
OrchestratedContextSegment(len) == Text("ConversationContextProvider", len, FALSE)

\* PromptBuilder.create_implementation_prompt
CreateImplementationPrompt ==
    /\ segment = NoSegment
    /\ segment' = BuildContextSummary(summaryLen)
    /\ UNCHANGED summaryLen
    /\ UNCHANGED << toolVars, reqVars, loopVars, searchVars, insertVars, answerVars, fieldVars >>

\* BusinessContextProvider.build_prompt over a Semantic Match
BusinessBuildPrompt ==
    /\ segment = NoSegment
    /\ segment' = BusinessContextSegment(summaryLen)
    /\ UNCHANGED summaryLen
    /\ UNCHANGED << toolVars, reqVars, loopVars, searchVars, insertVars, answerVars, fieldVars >>

\* ConversationContextProvider._create_orchestrated_prompt, from line 132 on
CreateOrchestratedPrompt ==
    /\ segment = NoSegment
    /\ segment' = OrchestratedContextSegment(summaryLen)
    /\ UNCHANGED summaryLen
    /\ UNCHANGED << toolVars, reqVars, loopVars, searchVars, insertVars, answerVars, fieldVars >>

PromptIdle ==
    /\ summaryLen = 0
    /\ segment = NoSegment

(***************************************************************************)
(* The text a model returns, and the extraction of JSON from it.  A text   *)
(* is a sequence of tokens: prose, the braces and members of JSON objects, *)
(* the opening fence of a json block and the bare fence.                   *)
(***************************************************************************)
\* longest model text, in tokens
MaxTextLen == 5

Prose == "prose"
LBrace == "{"
RBrace == "}"
Member == "member"
\* the start marker of line 249
JsonFence == "json_fence"
\* the end marker of line 250
BareFence == "fence"

Tokens == { Prose, LBrace, RBrace, Member, JsonFence, BareFence }
Texts == SeqsUpTo(Tokens, MaxTextLen)

\* the number of objects open after the first i tokens
RECURSIVE DepthAt(_, _)
DepthAt(ts, i) ==
    IF i = 0 THEN 0
    ELSE DepthAt(ts, i - 1)
         + (IF ts[i] = LBrace THEN 1 ELSE IF ts[i] = RBrace THEN -1 ELSE 0)

\* json.loads(text) returns: the text is one JSON object and nothing else
IsJson(ts) ==
    /\ Len(ts) >= 2
    /\ \A i \in 1..Len(ts) : ts[i] \in { LBrace, RBrace, Member }
    /\ \A i \in 1..(Len(ts) - 1) : DepthAt(ts, i) >= 1
    /\ DepthAt(ts, Len(ts)) = 0

\* str.find from position from on: the first token after from that is in S,
\* or 0 for the -1 of Python
FindFrom(ts, S, from) ==
    IF \E i \in (from + 1)..Len(ts) : ts[i] \in S
    THEN CHOOSE i \in (from + 1)..Len(ts) :
             /\ ts[i] \in S
             /\ \A j \in (from + 1)..(i - 1) : ts[j] \notin S
    ELSE 0

\* str.rfind: the last token that is in S, or 0
FindLast(ts, S) ==
    IF \E i \in 1..Len(ts) : ts[i] \in S
    THEN CHOOSE i \in 1..Len(ts) :
             /\ ts[i] \in S
             /\ \A j \in (i + 1)..Len(ts) : ts[j] \notin S
    ELSE 0

\* what an extraction returns: a parsed object, or the empty implementation
Parsed(ts) == [ kind |-> "json", object |-> ts ]
EmptyImplementation == [ kind |-> "empty", object |-> <<>> ]
NotExtracted == [ kind |-> None, object |-> <<>> ]

\* the scan from the first '{' to the last '}': anthropic.py lines 258-265,
\* and generator_utils._extract_json_from_text
BraceScan(ts) ==
    LET start == FindFrom(ts, { LBrace }, 0)
        end   == FindLast(ts, { RBrace })
    IN  IF start # 0 /\ end # 0
        THEN IF IsJson(SubSeq(ts, start, end))
             THEN Parsed(SubSeq(ts, start, end))
             ELSE \* json.loads raises; the except returns the empty structure
                  EmptyImplementation
        ELSE EmptyImplementation

\* the text between the opening fence at position start and the next fence;
\* the end marker is also the start of the opening fence
Fenced(ts, start) ==
    SubSeq(ts, start + 1, FindFrom(ts, { JsonFence, BareFence }, start) - 1)

\* the fenced block when it parses, and the brace scan when it does not
FencedThenBraceScan(ts) ==
    LET start == FindFrom(ts, { JsonFence }, 0)
    IN  IF start # 0 /\ FindFrom(ts, { JsonFence, BareFence }, start) # 0
           /\ IsJson(Fenced(ts, start))
        THEN Parsed(Fenced(ts, start))
        ELSE BraceScan(ts)

\* AnthropicRecommender._extract_json_from_text
ExtractJsonFromText(ts) ==
    LET start == FindFrom(ts, { JsonFence }, 0)
    IN  IF start # 0 /\ FindFrom(ts, { JsonFence, BareFence }, start) # 0
        THEN \* lines 253-255; a json.loads that raises goes to line 267
             IF IsJson(Fenced(ts, start))
             THEN Parsed(Fenced(ts, start))
             ELSE EmptyImplementation
        ELSE BraceScan(ts)

\* fetch_answer lines 233-236
ParseAnswer(ts) == IF IsJson(ts) THEN Parsed(ts) ELSE ExtractJsonFromText(ts)

(***************************************************************************)
(* Confidence values.  A number is kept in tenths, so One is 1.0; the      *)
(* other values are NaN, a non-numeric string, null and an absent key.     *)
(***************************************************************************)
\* largest magnitude of an ingested confidence, in tenths
MaxConfidenceTenths == 15
\* 1.0, in tenths
One == 10

Num(n) == [ type |-> "number", num |-> n ]
NaN == [ type |-> "nan", num |-> 0 ]
NonNumeric == [ type |-> "string", num |-> 0 ]
Null == [ type |-> "null", num |-> 0 ]
Missing == [ type |-> "missing", num |-> 0 ]
ConfidenceRaised == [ type |-> "raised", num |-> 0 ]

ConfidenceInputs ==
    { Num(n) : n \in (0 - MaxConfidenceTenths)..MaxConfidenceTenths }
        \cup { NaN, NonNumeric, Null, Missing }

\* a normalisation that leaves the number as it is
Unclamped(n) == n

\* max(0.0, min(1.0, x))
Clamp(n) == IF n < 0 THEN 0 ELSE IF n > One THEN One ELSE n

\* get_validated_answer, validation.py lines 12-22
ValidatedConfidence(v) ==
    IF v.type = "number" THEN Num(Clamp(v.num))
    ELSE IF v.type = "nan"
    THEN \* min(1.0, nan) is 1.0: no comparison with nan is true
         Num(One)
    ELSE \* absent: line 15 sets 0.0; a str or None: line 22
         Num(0)

\* normalize_classification_response, classification_result.py lines 96-100,
\* and LLMClassifier._normalize_classification_response
NormalizedConfidence(v) ==
    IF v.type = "number" THEN Num(Clamp(v.num))
    ELSE IF v.type = "nan" THEN Num(One)
    ELSE IF v.type = "missing" THEN Num(One \div 2)
    ELSE \* float("high") raises ValueError, float(None) raises TypeError
         ConfidenceRaised

\* classify_code, anthropic.py lines 71-78: an exception of the
\* normalisation is caught and the fallback response, with confidence 0.0,
\* is returned
ClassifyCodeConfidence(v) ==
    IF NormalizedConfidence(v) = ConfidenceRaised THEN Num(0) ELSE NormalizedConfidence(v)

\* prepare_documents_for_embedding, document_utils.py line 37:
\* float(row.get('classification_confidence', 0.0))
DocumentConfidence(v) ==
    IF v.type = "number" THEN Num(Unclamped(v.num))
    ELSE IF v.type = "nan" THEN NaN
    ELSE IF v.type = "missing" THEN Num(0)
    ELSE ConfidenceRaised

(***************************************************************************)
(* AnthropicRecommender.fetch_answer.                                      *)
(***************************************************************************)
\* validation.py lines 6-9
RequiredFields ==
    { "suggested_service", "suggested_files", "implementation_steps",
      "business_rationale", "integration_points", "code_examples", "confidence_score" }

\* how the request to the model ends
Transports == { "ok", "timeout", "connection_error", "http_error", "bad_envelope" }

Reply(builds, transport, text) == [ builds |-> builds, transport |-> transport, text |-> text ]

\* a fenced object between two lines of prose
SampleText == << Prose, JsonFence, LBrace, RBrace, BareFence >>
\* a confidence of 0.8
SampleConfidence == Num(One - 2)

NoAnswer == [ kind |-> None, source |-> None, extracted |-> NotExtracted, fields |-> {},
              confidence |-> Missing, rationale |-> None ]
AnswerRaised(e) == [ kind |-> "raised", source |-> e, extracted |-> NotExtracted, fields |-> {},
                     confidence |-> Missing, rationale |-> None ]

\* get_fallback_answer, validation.py lines 27-47
FallbackAnswer ==
    [ kind |-> "returned", source |-> "fallback", extracted |-> NotExtracted,
      fields |-> { "suggested_service", "suggested_files", "implementation_steps",
                   "business_rationale", "integration_points", "code_examples",
                   "confidence_score" },
      confidence |-> Num(0), rationale |-> "Fallback response due to LLM error" ]

\* get_validated_answer on what the extraction returned; the empty
\* implementation carries the confidence 0.0
ValidatedAnswer(e, conf) ==
    [ kind |-> "returned", source |-> "model", extracted |-> e,
      fields |-> RequiredFields,
      confidence |-> IF e.kind = "json" THEN ValidatedConfidence(conf)
                     ELSE ValidatedConfidence(Num(0)),
      rationale |-> IF e.kind = "json" THEN "model" ELSE "Could not analyze request" ]

\* a fetch_answer whose try has no except
FetchAnswerUncaught(rp, conf) ==
    IF ~rp.builds THEN AnswerRaised("AttributeError")
    ELSE IF rp.transport # "ok" THEN AnswerRaised(rp.transport)
    ELSE ValidatedAnswer(ParseAnswer(rp.text), conf)

\* AnthropicRecommender.fetch_answer, lines 202-242
AnthropicFetchAnswer(rp, conf) ==
    IF ~rp.builds
    THEN \* line 205: build_prompt is called outside the try
         AnswerRaised("AttributeError")
    ELSE IF rp.transport # "ok"
    THEN \* lines 221-230 raise; lines 240-242
         FallbackAnswer
    ELSE \* lines 233-238
         ValidatedAnswer(ParseAnswer(rp.text), conf)

NoConfidence == [ source |-> None, value |-> Missing ]

\* one call of fetch_answer
FetchAnswerCall ==
    /\ answer = NoAnswer /\ confOut = NoConfidence
    /\ answer' = AnthropicFetchAnswer(reply, confIn)
    /\ UNCHANGED << reply, confIn, confOut >>
    /\ UNCHANGED << toolVars, reqVars, loopVars, searchVars, insertVars, promptVars, fieldVars >>

\* generator_utils._extract_json_from_text(text)
ExtractJsonCall ==
    /\ answer = NoAnswer /\ confOut = NoConfidence
    /\ answer' = [ NoAnswer EXCEPT !.kind = "returned", !.source = "generator_utils",
                                   !.extracted = BraceScan(reply.text) ]
    /\ UNCHANGED << reply, confIn, confOut >>
    /\ UNCHANGED << toolVars, reqVars, loopVars, searchVars, insertVars, promptVars, fieldVars >>

\* classify_code over a model response that carries the confidence confIn
ClassifyCode ==
    /\ answer = NoAnswer /\ confOut = NoConfidence
    /\ confOut' = [ source |-> "classification", value |-> ClassifyCodeConfidence(confIn) ]
    /\ UNCHANGED << reply, confIn, answer >>
    /\ UNCHANGED << toolVars, reqVars, loopVars, searchVars, insertVars, promptVars, fieldVars >>

\* prepare_documents_for_embedding over a CSV row that carries confIn
PrepareDocument ==
    /\ answer = NoAnswer /\ confOut = NoConfidence
    /\ confOut' = [ source |-> "csv", value |-> DocumentConfidence(confIn) ]
    /\ UNCHANGED << reply, confIn, answer >>
    /\ UNCHANGED << toolVars, reqVars, loopVars, searchVars, insertVars, promptVars, fieldVars >>

AnswerIdle ==
    /\ reply = Reply(TRUE, "ok", SampleText)
    /\ confIn = SampleConfidence
    /\ answer = NoAnswer
    /\ confOut = NoConfidence

(***************************************************************************)
(* The list-valued classification fields (business_rules,                  *)
(* business_triggers, business_data, integration_points): their            *)
(* normalization, and their way through the classification CSV and the     *)
(* metadata of the collection into a context document.  A string is the    *)
(* sequence of its characters.                                             *)
(***************************************************************************)
\* longest string a response of the model gives for a field
MaxFieldLen == 4
\* longest list a response of the model gives for a field
MaxItems == 2

FieldChars == { "a", ",", " " }
Strings == SeqsUpTo(FieldChars, MaxFieldLen)

\* a Python value: a str, a list, or a value of another type; a list item
\* is a str, the int 1 or None, and carries the text that str() gives for it
StrValue(cs) == [ type |-> "str", chars |-> cs, items |-> <<>> ]
ListValue(items) == [ type |-> "list", chars |-> <<>>, items |-> items ]
OtherValue(t) == [ type |-> t, chars |-> <<>>, items |-> <<>> ]
StrItem(cs) == [ type |-> "str", chars |-> cs ]
IntItem == [ type |-> "int", chars |-> << "1" >> ]
NoneItem == [ type |-> "NoneType", chars |-> << "N", "o", "n", "e" >> ]
ItemValues == { StrItem(<< "a" >>), StrItem(<< "b" >>), StrItem(<< " ", "a" >>), IntItem, NoneItem }

\* classification.get(field, []): a missing key gives the empty list
FieldInputs ==
    { StrValue(s) : s \in Strings }
        \cup { ListValue(l) : l \in SeqsUpTo(ItemValues, MaxItems) }
        \cup { OtherValue("NoneType"), OtherValue("int"), OtherValue("dict") }

NoField == OtherValue("unset")

\* the places where sep starts in s
Occurrences(s, sep) ==
    { i \in 1..(Len(s) - Len(sep) + 1) : SubSeq(s, i, i + Len(sep) - 1) = sep }

RECURSIVE SplitOn(_, _)
\* str.split(sep)
SplitOn(s, sep) ==
    IF Occurrences(s, sep) = {} THEN << s >>
    ELSE LET k == CHOOSE i \in Occurrences(s, sep) : \A j \in Occurrences(s, sep) : i <= j
         IN  << SubSeq(s, 1, k - 1) >> \o SplitOn(SubSeq(s, k + Len(sep), Len(s)), sep)

RECURSIVE Strip(_)
\* str.strip()
Strip(s) ==
    IF s # <<>> /\ Head(s) = " " THEN Strip(Tail(s))
    ELSE IF s # <<>> /\ s[Len(s)] = " " THEN Strip(SubSeq(s, 1, Len(s) - 1))
    ELSE s

RECURSIVE Join(_, _)
\* sep.join(items)
Join(items, sep) ==
    IF items = <<>> THEN <<>>
    ELSE IF Len(items) = 1 THEN items[1]
    ELSE items[1] \o sep \o Join(Tail(items), sep)

\* str(item)
Str(item) == StrItem(item.chars)

\* the texts of the items of a list
ItemTexts(value) == [ i \in 1..Len(value.items) |-> value.items[i].chars ]

\* a normalization that splits at the commas and keeps the blanks
EnsureListUnstripped(value) ==
    IF value.type = "list"
    THEN ListValue([ i \in 1..Len(value.items) |-> Str(value.items[i]) ])
    ELSE IF value.type = "str"
    THEN IF Occurrences(value.chars, << "," >>) # {}
         THEN LET parts == SplitOn(value.chars, << "," >>)
              IN  ListValue([ i \in 1..Len(parts) |-> StrItem(parts[i]) ])
         ELSE IF value.chars # <<>> THEN ListValue(<< StrItem(value.chars) >>)
         ELSE ListValue(<<>>)
    ELSE ListValue(<<>>)

\* _ensure_list(value)
EnsureList(value) ==
    IF value.type = "list"
    THEN \* lines 9-10
         ListValue([ i \in 1..Len(value.items) |-> Str(value.items[i]) ])
    ELSE IF value.type = "str"
    THEN IF Occurrences(value.chars, << "," >>) # {}
         THEN \* lines 13-14
              LET parts == SplitOn(value.chars, << "," >>)
              IN  ListValue([ i \in 1..Len(parts) |-> StrItem(Strip(parts[i])) ])
         ELSE \* line 16
              IF value.chars # <<>> THEN ListValue(<< StrItem(value.chars) >>)
              ELSE ListValue(<<>>)
    ELSE \* line 18
         ListValue(<<>>)

\* pandas.read_csv: an empty cell is read as NaN, another cell as its text
ReadCsv(cell) == IF cell = <<>> THEN OtherValue("nan") ELSE StrValue(cell)

\* str(row.get(field, '')): the text of a cell, "nan" for NaN
CellText(v) == IF v.type = "nan" THEN << "n", "a", "n" >> ELSE v.chars

\* the list a context document gets for a field of the metadata:
\* metadata.get(field, '').split(' | ') if metadata.get(field) else []
ContextList(meta) ==
    IF meta = <<>> THEN ListValue(<<>>)
    ELSE LET parts == SplitOn(meta, << " ", "|", " " >>)
         IN  ListValue([ i \in 1..Len(parts) |-> StrItem(parts[i]) ])

\* normalize_classification_response, for one field
NormalizeClassificationResponse ==
    /\ fieldOut = NoField
    /\ fieldOut' = EnsureList(fieldIn)
    /\ UNCHANGED << fieldIn, csvCell, metaField, contextField >>
    /\ UNCHANGED << toolVars, reqVars, loopVars, searchVars, insertVars, promptVars, answerVars >>

\* _save_results_to_csv, for the field of one result
SaveResultsToCsv ==
    /\ fieldOut # NoField
    /\ csvCell = NoField
    /\ csvCell' = StrValue(Join(ItemTexts(fieldOut), << "|" >>))
    /\ UNCHANGED << fieldIn, fieldOut, metaField, contextField >>
    /\ UNCHANGED << toolVars, reqVars, loopVars, searchVars, insertVars, promptVars, answerVars >>

\* load_classification_data and prepare_documents_for_embedding, for the
\* field of one row; the collection stores the metadata string as it is
PrepareDocumentsForEmbedding ==
    /\ csvCell # NoField
    /\ metaField = NoField
    /\ metaField' = StrValue(CellText(ReadCsv(csvCell.chars)))
    /\ UNCHANGED << fieldIn, fieldOut, csvCell, contextField >>
    /\ UNCHANGED << toolVars, reqVars, loopVars, searchVars, insertVars, promptVars, answerVars >>

\* get_context_docs and get_relevant_context, for the field of one match
GetContextDocs ==
    /\ metaField # NoField
    /\ contextField = NoField
    /\ contextField' = ContextList(metaField.chars)
    /\ UNCHANGED << fieldIn, fieldOut, csvCell, metaField >>
    /\ UNCHANGED << toolVars, reqVars, loopVars, searchVars, insertVars, promptVars, answerVars >>

FieldIdle ==
    /\ fieldIn = ListValue(<<>>)
    /\ fieldOut = NoField
    /\ csvCell = NoField
    /\ metaField = NoField
    /\ contextField = NoField

SearchIdle ==
    /\ searchPc = "start"
    /\ searchCall = NoSearch
    /\ searchResult = NoSearchResult
    /\ retrievalOutcome = RetrievalRunning

UnitIdle ==
    /\ index = AbsentIndex
    /\ distances = <<>>
    /\ SearchIdle
    /\ InsertIdle
    /\ PromptIdle
    /\ AnswerIdle
    /\ FieldIdle

LoopInit ==
    /\ pc = "await"
    /\ iteration = 0
    /\ modelCalls = 0
    /\ llmResponse = NoResponse
    /\ pending = <<>>
    /\ history = InitialHistory
    /\ allResponses = <<>>
    /\ toolResponses = <<>>
    /\ outcome = Running
    /\ requested = <<>>
    /\ prompt = NoPrompt

\* nothing was called yet
CoreInit ==
    /\ lastCall = NoCall
    /\ lastResult = NoResult
    /\ reqPc = "start"
    /\ reqOutcome = Running
    /\ LoopInit

Init ==
    /\ CoreInit
    /\ UnitIdle

Next == ExecuteTool \/ RetrieveContext \/ ConstructContext

Spec == Init /\ [][Next]_vars

LoopNext == FetchAnswer \/ HandleResponse \/ ParseToolCalls \/ ExecuteToolCall \/ ForcedFinal

LoopSpec == Init /\ [][LoopNext]_vars

\* one retrieval over any collection
RetrievalInit ==
    /\ CoreInit
    /\ index \in Indexes
    /\ distances \in [ 1..index.docs -> Distances ]
    /\ SearchIdle
    /\ InsertIdle
    /\ PromptIdle
    /\ AnswerIdle
    /\ FieldIdle

RetrievalNext ==
    \/ SemanticSearchCall
    \/ FilteredRetrievalCall
    \/ BasicRetrieve
    \/ FilteredRetrieve
    \/ FetchSingleShotAnswer
    \/ GetRelevantContext
    \/ SuggestImplementation

RetrievalSpec == RetrievalInit /\ [][RetrievalNext]_vars

\* two callers insert into one collection, which may be absent
InsertInit ==
    /\ CoreInit
    /\ index \in { AbsentIndex, EmptyIndex }
    /\ distances = <<>>
    /\ SearchIdle
    /\ docCount \in { f \in [ Callers -> DocCounts \cup SecondDocCounts ] :
                        f["A"] \in DocCounts /\ f["B"] \in SecondDocCounts }
    /\ batchStart = [ c \in Callers |-> 0 ]
    /\ attempts = [ c \in Callers |-> <<>> ]
    /\ insertPc = [ c \in Callers |-> "loop" ]
    /\ stored = [ id \in DocIds |-> None ]
    /\ lastWrite = [ id \in DocIds |-> None ]
    /\ PromptIdle
    /\ AnswerIdle
    /\ FieldIdle

InsertNext == \E c \in Callers : AddBatch(c) \/ CountDocuments(c)

InsertSpec == InsertInit /\ [][InsertNext]_vars

\* one prompt built over a summary of any length
PromptInit ==
    /\ CoreInit
    /\ index = AbsentIndex
    /\ distances = <<>>
    /\ SearchIdle
    /\ InsertIdle
    /\ summaryLen \in SummaryLengths
    /\ segment = NoSegment
    /\ AnswerIdle
    /\ FieldIdle

PromptNext == CreateImplementationPrompt \/ BusinessBuildPrompt \/ CreateOrchestratedPrompt

PromptSpec == PromptInit /\ [][PromptNext]_vars

\* one call over any model text, and over any confidence value
AnswerInit ==
    /\ CoreInit
    /\ index = AbsentIndex
    /\ distances = <<>>
    /\ SearchIdle
    /\ InsertIdle
    /\ PromptIdle
    /\ \/ /\ reply \in { Reply(TRUE, "ok", t) : t \in Texts }
          /\ confIn = SampleConfidence
       \/ /\ reply \in { Reply(b, tr, SampleText) : b \in BOOLEAN, tr \in Transports }
          /\ confIn \in ConfidenceInputs
    /\ answer = NoAnswer
    /\ confOut = NoConfidence
    /\ FieldIdle

AnswerNext == FetchAnswerCall \/ ExtractJsonCall \/ ClassifyCode \/ PrepareDocument

AnswerSpec == AnswerInit /\ [][AnswerNext]_vars

\* one field value on its way from the response of the model to a context
\* document
FieldInit ==
    /\ CoreInit
    /\ index = AbsentIndex
    /\ distances = <<>>
    /\ SearchIdle
    /\ InsertIdle
    /\ PromptIdle
    /\ AnswerIdle
    /\ fieldIn \in FieldInputs
    /\ fieldOut = NoField
    /\ csvCell = NoField
    /\ metaField = NoField
    /\ contextField = NoField

FieldNext ==
    \/ NormalizeClassificationResponse
    \/ SaveResultsToCsv
    \/ PrepareDocumentsForEmbedding
    \/ GetContextDocs

FieldSpec == FieldInit /\ [][FieldNext]_vars

ProviderNext == ProviderAddToolResponse \/ ProviderAddLlmResponse \/ ProviderBuildPrompt

\* a constructed conversation context provider and its three operations
ProviderSpec == Init /\ [][ProviderNext]_vars

(***************************************************************************)
(* Properties of the tool-calling loop, checked under LoopSpec.            *)
(***************************************************************************)
Done == pc = "done"

\* the model answered each of the max_iterations regular calls with tool
\* calls, and every one of them produced a Tool Result
BudgetExhausted == iteration = MaxToolIterations

\* C1: in every run of the tool-calling loop, whatever the model answers, the
\* number of model invocations is at most max_iterations regular calls plus
\* one forced final call.
C1_ModelCallsBounded == modelCalls <= MaxToolIterations + 1

\* a run that spent all its regular calls and ended
C1_Witness == Done /\ BudgetExhausted /\ modelCalls = MaxToolIterations

\* C2: with a model that answers every call with a tool request, the run
\* ends after max_iterations regular calls and exactly one forced final call
\* (call number max_iterations + 1), whose response it returns.
C2_AlwaysToolsEndsWithForcedFinal ==
    (Done /\ BudgetExhausted)
        => (modelCalls = MaxToolIterations + 1 /\ outcome.kind = "returned")

\* C3: when a model response holds no tool call, the run ends in Done and
\* returns exactly that response; no tool is executed and no model call is
\* made after it.
C3_NoToolCallsIsFinal ==
    [][ /\ (llmResponse.kind = "final" /\ pc \in { "respond", "parse" })
            => /\ pc' \in { "parse", "done" }
               /\ modelCalls' = modelCalls
               /\ allResponses' = allResponses
               /\ lastResult' = lastResult
               /\ llmResponse' = llmResponse
        /\ (pc = "parse" /\ ParseToolCallsFromResponse(llmResponse) = <<>>)
            => (pc' = "done" /\ outcome' = Returned(llmResponse))
        /\ Done => (pc' = "done" /\ outcome' = outcome /\ modelCalls' = modelCalls
                    /\ allResponses' = allResponses) ]_vars

\* a final response that came after a round of tool calls was returned
C3_Witness ==
    /\ Done /\ outcome.kind = "returned" /\ outcome.value.kind = "final"
    /\ outcome.value.id = 2 /\ modelCalls = 2 /\ Len(allResponses) > 0

\* C4: when a model call produces no response, the loop ends early: no
\* further model call is made and the run returns the last known-good result
\* or the fallback structure.
C4_NoResponseEndsWithResult ==
    (Done /\ llmResponse.kind = "none")
        => (outcome.kind = "returned" /\ modelCalls = llmResponse.id)

\* C5: the tool calls of a response are executed in the order requested and
\* every Tool Result, success or failure, is appended to the conversation
\* context in that order; all results of a response are recorded before the
\* next model call.
C5_ToolResultsInRequestOrder ==
    /\ Len(allResponses) <= Len(requested)
    /\ \A i \in 1..Len(allResponses) : allResponses[i] = ToolAgentExecuteTool(requested[i])
    /\ toolResponses = allResponses
    /\ Len(pending) <= Len(requested)
    /\ (pc = "exec" => /\ pending # <<>>
                       /\ Len(allResponses) + Len(pending) = Len(requested)
                       /\ pending = SubSeq(requested, Len(allResponses) + 1, Len(requested)))
    /\ (pc \in { "await", "respond", "parse", "after_loop" }
            => Len(allResponses) = Len(requested))

\* the second model call was made after a failure and a success, requested
\* in that order by the first response, were both recorded
C5_Witness ==
    /\ pc = "respond" /\ modelCalls = 2 /\ Len(requested) >= 2
    /\ Len(allResponses) = Len(requested)
    /\ ~allResponses[1].success /\ allResponses[2].success

\* C6: once the iteration budget is exhausted, the response of the forced
\* final call is what the run returns, and no tool runs after that call.
C6_ForcedFinalResponseReturned ==
    (Done /\ BudgetExhausted)
        => /\ outcome = Returned(llmResponse)
           /\ llmResponse.id = MaxToolIterations + 1
           /\ Len(allResponses) = Len(requested)

(***************************************************************************)
(* Properties of the entry points, checked under Spec.                     *)
(***************************************************************************)
\* C7: every request to fetch_coding_advice completes with one final
\* structured answer or one explicit failure value, never with an uncaught
\* exception.
C7_RequestCompletes == reqPc = "ended" => reqOutcome.kind = "returned"

CallMade == lastCall # NoCall
GotToolResult == CallMade /\ ~IsRaised(lastResult)
StringPathCall == lastCall.tool_name = CodeToolName /\ lastCall.kw = "file_path"

\* the canonical location of the path of the latest call
CanonicalPath == Resolve(FullPath(lastCall.path))

\* C8: for every path given to the file-retrieval tool, relative or
\* absolute, with or without '..' segments, a canonical path outside the
\* project root gives success=false and result=None; the content of a file
\* outside the root is never returned.
C8_OutsideRootRejected ==
    (GotToolResult /\ StringPathCall)
        => /\ ~IsPrefix(ProjectRoot, CanonicalPath)
               => (lastResult.success = FALSE /\ lastResult.result = NoResult)
           /\ lastResult.success => IsPrefix(ProjectRoot, lastResult.result.content)

\* an existing file outside the root, reached through the symbolic link
\* inside the root, was refused
C8_Witness ==
    /\ GotToolResult /\ StringPathCall
    /\ lastCall.path = [ abs |-> FALSE, segs |-> << "link", "passwd" >> ]
    /\ Walk(FullPath(lastCall.path)) \in Files
    /\ ~lastResult.success

\* the kinds of tool misuse
Misuse ==
    \/ lastCall.tool_name # CodeToolName
    \/ lastCall.kw \in { "missing", "extra" }
    \/ (lastCall.kw = "file_path" /\ ~IsPrefix(ProjectRoot, CanonicalPath))
    \/ (lastCall.kw = "file_path" /\ Walk(FullPath(lastCall.path)) = NoEnt)

\* C9: every form of tool misuse given to execute_tool (unknown tool,
\* missing or unexpected parameter, path outside the root, missing file)
\* yields a Tool Result with success=false and a non-empty error string;
\* execute_tool never raises.
C9_MisuseYieldsFailureResult ==
    (CallMade /\ Misuse)
        => /\ ~IsRaised(lastResult)
           /\ lastResult.success = FALSE
           /\ lastResult.error # None

\* C10: every Tool Result has success=true with a payload and no error, or
\* success=false with an error and no payload; never neither.
C10_ResultXorError ==
    GotToolResult
        => /\ lastResult.success => (lastResult.result # NoResult /\ lastResult.error = None)
           /\ ~lastResult.success => (lastResult.error # None /\ lastResult.result = NoResult)
           /\ ~(lastResult.result = NoResult /\ lastResult.error = None)

\* a failure result was produced for an unknown tool name
C10_Witness ==
    /\ GotToolResult /\ lastCall.tool_name # CodeToolName
    /\ ~lastResult.success /\ lastResult.error # None

(***************************************************************************)
(* Properties of the adapter and of retrieval, checked under RetrievalSpec. *)
(***************************************************************************)
\* the adapter was asked to search
Searched == searchCall # NoSearch

\* C11: when the index raises during a search, the adapter returns a
\* structured error result instead of raising, and the retrieval built on it
\* (the retrieval service, then the context provider building the prompt)
\* goes on to the model call with no context; the request is never aborted.
C11_IndexErrorDegradesToNoContext ==
    (Searched /\ index.present /\ index.failing)
        => /\ "error" \in searchResult.keys
           /\ searchPc = "ended" => retrievalOutcome = ModelCalled(NoContext)

\* the collection is absent, or present and empty
EmptyOrAbsent == ~index.present \/ (index.docs = 0 /\ ~index.failing)

\* C12: a search against an empty or absent collection, the
\* EmptyVectorCollection included, returns the empty-result marker (no
\* matches and total_results = 0) and no error result.
C12_EmptyIndexGivesEmptyMarker ==
    (Searched /\ EmptyOrAbsent)
        => /\ "error" \notin searchResult.keys
           /\ "summary" \in searchResult.keys
           /\ searchResult.ids = <<>>
           /\ searchResult.total_results = 0

(***************************************************************************)
(* Properties of the batched insert, checked under InsertSpec.             *)
(***************************************************************************)
\* the batches range(0, n, BATCH_SIZE) makes of n documents
NumBatches(n) == (n + BATCH_SIZE - 1) \div BATCH_SIZE

\* C13: in a batched insert (batches of at most 100 documents, in input
\* order) a failing batch is skipped and every later batch is still tried:
\* each batch is tried exactly once, the documents of successful batches are
\* stored and stay stored, and no batch failure makes the insert call raise.
C13_FailedBatchSkipped ==
    \A c \in Callers :
        LET a == attempts[c]
            n == docCount[c]
        IN  /\ \A k \in 1..Len(a) :
                 /\ a[k].start = (k - 1) * BATCH_SIZE
                 /\ a[k].size = IF n - a[k].start < BATCH_SIZE THEN n - a[k].start ELSE BATCH_SIZE
                 /\ a[k].size >= 1
                 /\ a[k].ok => \A id \in (a[k].start + 1)..(a[k].start + a[k].size) :
                                   stored[id] # None
            /\ insertPc[c] # "loop" => Len(a) = NumBatches(n)
            /\ (insertPc[c] # "loop" /\ index.present) => insertPc[c] = "returned"

\* a call returned after its first batch failed and a later one was stored
C13_Witness ==
    \E c \in Callers :
        /\ insertPc[c] = "returned"
        /\ Len(attempts[c]) >= 2
        /\ ~attempts[c][1].ok
        /\ attempts[c][Len(attempts[c])].ok
        /\ stored[docCount[c]] = c

\* C14: insert is an upsert by id where the last write wins: after an id
\* already stored is inserted again, by the same caller or by a caller whose
\* batches interleave, the collection holds under that id the text and
\* metadata of the last write.
C14_LastWriteWins ==
    \A id \in DocIds : lastWrite[id] # None => stored[id] = lastWrite[id]

(***************************************************************************)
(* Properties of the business-context segment, checked under PromptSpec.   *)
(***************************************************************************)
\* C15: in every prompt a context provider builds (single-shot,
\* conversational, or the PromptBuilder variant) the business-context
\* segment is no longer than the budget of 8000 characters; a longer summary
\* is cut and ends with the "[truncated]" marker.
C15_ContextSegmentWithinBudget ==
    segment # NoSegment
        => /\ segment.len <= MAX_CONTEXT_LENGTH
           /\ summaryLen > MAX_CONTEXT_LENGTH => segment.marker

(***************************************************************************)
(* Properties of the conversational prompt, checked under ProviderSpec and *)
(* LoopSpec.                                                               *)
(***************************************************************************)
\* the examined-code section of prompt p shows the latest successful results
\* of all, at most three of them, in the order they were added, each with
\* its file and at most the first 1000 characters of its content
ExaminedIsLatestSuccesses(p, all) ==
    LET succ == SelectSeq(all, Succeeded)
        n    == Len(p.examined)
    IN  /\ n <= ExaminedLimit
        /\ n = IF Len(succ) < ExaminedLimit THEN Len(succ) ELSE ExaminedLimit
        /\ \A i \in 1..n :
             LET r == succ[Len(succ) - n + i]
             IN  /\ p.examined[i].relative_path = r.result.relative_path
                 /\ p.examined[i].file = r.result.content
                 /\ p.examined[i].chars <= SnippetLimit
                 /\ p.examined[i].chars <= ContentLength(r.result.content)
                 /\ p.examined[i].chars \in { SnippetLimit, ContentLength(r.result.content) }

\* C16: after any sequence of tool results was added to the conversational
\* provider, the examined-code section of the next prompt has at most 3
\* entries, which are the 3 most recently added successful results in the
\* order added, each with its file identifier and at most the first 1000
\* characters of its content.
C16_ExaminedCodeIsLastThreeSuccesses ==
    [][ modelCalls' = modelCalls + 1 => ExaminedIsLatestSuccesses(prompt', allResponses') ]_vars

\* a prompt built after four successes: the oldest is left out and the long
\* file is cut
C16_Witness ==
    /\ Len(allResponses) = 4
    /\ \A i \in 1..4 : allResponses[i].success
    /\ allResponses[1].result.content = << "project", "a.cs" >>
    /\ allResponses[2].result.content = << "project", "sub", "b.cs" >>
    /\ Len(prompt.examined) = ExaminedLimit
    /\ prompt.examined[1].file = << "project", "sub", "b.cs" >>
    /\ prompt.examined[3].file = << "project", "a.cs" >>
    /\ prompt.examined[3].chars = SnippetLimit

\* the text of prompt p holds a "Tool Results" fragment of the history that
\* reports a failure with the error err
PromptReportsFailure(p, err) ==
    \E k \in 1..Len(p.fragments) :
        /\ p.fragments[k].kind = "tools"
        /\ \E j \in 1..Len(p.fragments[k].results) :
             /\ ~p.fragments[k].results[j].success
             /\ p.fragments[k].results[j].error = err

\* the prompt for the next model call was built, and the latest tool call
\* before it failed
PromptBuiltAfterFailure ==
    /\ pc = "respond"
    /\ toolResponses # <<>>
    /\ ~toolResponses[Len(toolResponses)].success

\* C17: when a tool call of one iteration fails (get_code_by_filepath of
\* "/etc/passwd" under the root /project, say), the prompt sent on the next
\* model call contains "Failed to retrieve: <error>" with the error of that
\* failure, and no file content for that call.
C17_NextPromptReportsFailure ==
    PromptBuiltAfterFailure
        => /\ PromptReportsFailure(prompt, toolResponses[Len(toolResponses)].error)
           /\ \A i \in 1..Len(prompt.examined) :
                prompt.examined[i].file # << "etc", "passwd" >>

(***************************************************************************)
(* Properties of fetch_answer and of the extraction, checked under         *)
(* AnswerSpec.                                                             *)
(***************************************************************************)
\* the stages in their order: the whole text, the fenced block, the braces
StagedExtraction(ts) == IF IsJson(ts) THEN Parsed(ts) ELSE FencedThenBraceScan(ts)

\* C18: JSON is extracted from a model text in stages, in the order direct
\* parse, fenced code block, first '{' to last '}'; the result is the JSON
\* of the first stage that succeeds, and the fallback value is returned only
\* when all three fail.  Valid JSON in a fenced block between prose yields
\* that object, and a malformed fenced block does not keep the brace scan
\* from being tried.
C18_ExtractionIsStaged ==
    (answer.kind = "returned" /\ answer.source \in { "model", "generator_utils" })
        => answer.extracted = StagedExtraction(reply.text)

\* the request to the model failed in transport
TransportFailed ==
    reply.builds /\ reply.transport \in { "timeout", "connection_error", "http_error" }

InUnitInterval(v) == v.type = "number" /\ 0 <= v.num /\ v.num <= One

\* C20: every confidence taken in (from a classification response of the
\* model, from an implementation answer of the model, from a row of the
\* classification CSV) is stored or returned as a number in [0, 1]: a value
\* above 1 becomes 1, a value below 0 becomes 0, a value in the range stays,
\* and a non-numeric value becomes a value in the range.
C20_ConfidenceInUnitInterval ==
    /\ (answer.kind = "returned" /\ answer.source \in { "model", "fallback" })
           => InUnitInterval(answer.confidence)
    /\ confOut # NoConfidence
           => /\ InUnitInterval(confOut.value)
              /\ confIn.type = "number"
                   => confOut.value.num
                        = IF confIn.num > One THEN One ELSE IF confIn.num < 0 THEN 0 ELSE confIn.num

(***************************************************************************)
(* The order of the checks of the file-retrieval tool, checked under Spec. *)
(***************************************************************************)
\* the path p names a location outside the project root
OutsideRoot(p) == ~WithinRoot(FullPath(p))

\* C29: the containment check comes before the existence check and before
\* any read: for any two paths outside the project root, one naming an
\* existing file and one naming nothing, the two Tool Results have the same
\* success flag and the same kind of error (the security error), so that the
\* result does not tell whether a file outside the root exists.
C29_OutsideRootResultHidesExistence ==
    (GotToolResult /\ StringPathCall /\ OutsideRoot(lastCall.path))
        => /\ lastResult.success = FALSE
           /\ lastResult.error = "outside project root for security"
           /\ \A q \in PathInputs :
                OutsideRoot(q)
                    => /\ CodeRetrievalExecute(q).success = lastResult.success
                       /\ CodeRetrievalExecute(q).error = lastResult.error
                       /\ CodeRetrievalExecute(q).result = lastResult.result

\* the existing file /etc/passwd was asked for by its absolute path and was
\* refused with the security error, and a path outside the root that names
\* nothing is among the inputs
C29_Witness ==
    /\ GotToolResult /\ StringPathCall
    /\ lastCall.path = [ abs |-> TRUE, segs |-> << "etc", "passwd" >> ]
    /\ Walk(FullPath(lastCall.path)) \in Files
    /\ lastResult.error = "outside project root for security"
    /\ \E q \in PathInputs : OutsideRoot(q) /\ Walk(FullPath(q)) = NoEnt

(***************************************************************************)
(* Properties of the state of the conversation context provider, checked   *)
(* under ProviderSpec and under LoopSpec.                                  *)
(***************************************************************************)
\* C25: build_prompt of the context providers is pure: a call leaves the
\* conversation state (the history fragments, the tool-result buffers)
\* unchanged, and two consecutive calls with no add in between return the
\* same text and leave the same state.
C25_BuildPromptIsPure ==
    [][ modelCalls' = modelCalls + 1
          => /\ history' = history
             /\ toolResponses' = toolResponses
             /\ allResponses' = allResponses ]_vars

\* C26: after any sequence of add_tool_response, add_llm_response and
\* build_prompt, the tool-result buffer holds at most the last 3 tool
\* results; older results are dropped.
C26_ToolBufferHoldsLastThree ==
    /\ Len(toolResponses) <= ExaminedLimit
    /\ Len(allResponses) <= ExaminedLimit

\* the fragments after the first one alternate, a model response first
Alternates(h) ==
    /\ Len(h) >= 1
    /\ h[1].kind = "init"
    /\ \A i \in 2..Len(h) :
         /\ h[i].kind = IF i % 2 = 0 THEN "llm" ELSE "tools"
         /\ h[i].kind # h[i - 1].kind

\* C27: at every point of an orchestrator run the history is the initial
\* fragment followed by strictly alternating model-response and tool-result
\* fragments; each model response is appended before its tool calls are
\* parsed, and two fragments of the same kind are never adjacent.
C27_HistoryAlternates ==
    /\ Alternates(history)
    /\ pc \in { "parse", "exec" }
         => /\ history[Len(history)].kind = "llm"
            /\ history[Len(history)].id = llmResponse.id

\* three model responses and two tool-result fragments are in the history
C27_Witness ==
    /\ Len(history) = 6
    /\ history[5].kind = "tools"
    /\ history[6].kind = "llm"
    /\ pc = "parse"

RECURSIVE ReportedResults(_)
\* the results that the tool-result fragments of h list, in their order
ReportedResults(h) ==
    IF h = <<>> THEN <<>>
    ELSE (IF Head(h).kind = "tools" THEN Head(h).results ELSE <<>>) \o ReportedResults(Tail(h))

\* C28: each executed tool call is reported in exactly one tool-result
\* fragment of the history: the fragment appended after iteration i lists
\* the results of iteration i only, so the reported results, read in order,
\* are the executed ones, each once.
C28_EachResultReportedOnce ==
    /\ Len(ReportedResults(history)) <= Len(allResponses)
    /\ ReportedResults(history) = SubSeq(allResponses, 1, Len(ReportedResults(history)))

(***************************************************************************)
(* Retrieval that finds nothing, checked under RetrievalSpec and under     *)
(* PromptSpec.                                                             *)
(***************************************************************************)
\* the index answered the search of a generator, and with no document
RetrievedNothing ==
    /\ Searched /\ searchPc = "ended"
    /\ index.present /\ ~index.failing
    /\ searchResult.error = None
    /\ searchResult.ids = <<>>

\* C22: when retrieval returns no matching document, every generator
\* (orchestrated, simple, complete-suggestion) takes the empty context for a
\* valid input: it still calls the model and returns a suggestion, raises
\* no error and does not stop early.
C22_EmptyContextStillAnswers ==
    RetrievedNothing
        => /\ retrievalOutcome.kind = "model_called"
           /\ retrievalOutcome.context.docs = <<>>

\* C23: for a query for which the adapter yields zero results, retrieval
\* returns a Semantic Match with an empty result list and total_results = 0,
\* and the context segment of the prompt is exactly the text "No relevant
\* context found.".
C23_EmptyRetrievalGivesNoContextText ==
    (segment # NoSegment /\ summaryLen = 0)
        => /\ segment.len = NoContextTextLength
           /\ ~segment.marker

(***************************************************************************)
(* The order of the matches, checked under RetrievalSpec.                  *)
(***************************************************************************)
\* the matches are in the order of the index, each id with its own document
\* and its own distance
InIndexOrder(ids, documents, dists) ==
    /\ Len(documents) = Len(ids)
    /\ Len(dists) = Len(ids)
    /\ \A i \in 1..Len(ids) :
         /\ ids[i] \in 1..index.docs
         /\ documents[i] = ids[i]
         /\ dists[i] = distances[ids[i]]
    /\ \A i, j \in 1..Len(ids) : i < j => ids[i] < ids[j]

NonDecreasing(ds) == \A i \in 1..(Len(ds) - 1) : ds[i] <= ds[i + 1]

\* C24: search, filtered search and retrieval return the matches in exactly
\* the order in which the index returned them: they are never sorted again,
\* matches of equal distance keep their order, ids, documents, metadata and
\* distances stay aligned position by position, and the distances are
\* non-decreasing whenever the index returned them so.
C24_MatchesKeepIndexOrder ==
    /\ (Searched /\ searchResult.error = None)
         => /\ InIndexOrder(searchResult.ids, searchResult.documents, searchResult.distances)
            /\ searchResult.total_results = Len(searchResult.ids)
            /\ "filters" \notin searchResult.keys
                 => \A i \in 1..Len(searchResult.ids) : searchResult.ids[i] = i
            /\ NonDecreasing(distances) => NonDecreasing(searchResult.distances)
    /\ retrievalOutcome.kind \in { "context", "model_called" }
         => LET docs == retrievalOutcome.context.docs
            IN  /\ Len(docs) = Len(searchResult.ids)
                /\ \A i \in 1..Len(docs) :
                     /\ docs[i].rank = i
                     /\ docs[i].id = searchResult.ids[i]
                     /\ docs[i].document = searchResult.documents[i]
                     /\ docs[i].distance = searchResult.distances[i]

\* context documents were made of matches of which the first two are equally
\* far from the query and the third is nearer
C24_Witness ==
    /\ retrievalOutcome.kind = "context"
    /\ Len(retrievalOutcome.context.docs) >= 3
    /\ retrievalOutcome.context.docs[1].distance = retrievalOutcome.context.docs[2].distance
    /\ retrievalOutcome.context.docs[3].distance < retrievalOutcome.context.docs[2].distance
    /\ retrievalOutcome.context.docs[1].id = 1
    /\ retrievalOutcome.context.docs[2].id = 2

(***************************************************************************)
(* Properties of the list-valued fields, checked under FieldSpec.          *)
(***************************************************************************)
HasComma(cs) == Occurrences(cs, << "," >>) # {}
Trimmed(cs) == cs = <<>> \/ (Head(cs) # " " /\ cs[Len(cs)] # " ")
IsPart(cs, s) == \E i \in 1..(Len(s) + 1) : \E j \in (i - 1)..Len(s) : cs = SubSeq(s, i, j)
NotBlank(c) == c # " "
NoBlanks(cs) == SelectSeq(cs, NotBlank)

\* C21: for every list-valued classification field the normalization
\* returns a list of strings: a comma-separated string yields its trimmed
\* items, a list yields the list of its items each converted to a string,
\* and an empty, missing, or non-list non-string value yields the empty
\* list.
C21_NormalizedFieldIsListOfStrings ==
    fieldOut # NoField
        => /\ fieldOut.type = "list"
           /\ \A i \in 1..Len(fieldOut.items) : fieldOut.items[i].type = "str"
           /\ fieldIn.type = "list" => ItemTexts(fieldOut) = ItemTexts(fieldIn)
           /\ (fieldIn.type = "str" /\ HasComma(fieldIn.chars))
                => /\ Len(fieldOut.items) = Cardinality(Occurrences(fieldIn.chars, << "," >>)) + 1
                   /\ \A i \in 1..Len(fieldOut.items) :
                        /\ Trimmed(fieldOut.items[i].chars)
                        /\ ~HasComma(fieldOut.items[i].chars)
                        /\ IsPart(fieldOut.items[i].chars, fieldIn.chars)
                   /\ NoBlanks(Join(ItemTexts(fieldOut), << "," >>)) = NoBlanks(fieldIn.chars)
           /\ (fieldIn.type \notin { "list", "str" } \/ fieldIn = StrValue(<<>>)
                 \/ fieldIn = ListValue(<<>>))
                => fieldOut.items = <<>>

\* the string "a, a" was normalized to the list of "a" and "a"
C21_Witness ==
    /\ fieldIn = StrValue(<< "a", ",", " ", "a" >>)
    /\ fieldOut = ListValue(<< StrItem(<< "a" >>), StrItem(<< "a" >>) >>)

\* a list of non-empty strings that hold no separator
CleanList(v) ==
    /\ v.type = "list"
    /\ \A i \in 1..Len(v.items) :
         /\ v.items[i].chars # <<>>
         /\ Occurrences(v.items[i].chars, << "|" >>) = {}

\* C30: a list-valued field goes unchanged through the CSV encoding, the
\* metadata of the collection and the retrieval (get_context_docs,
\* get_relevant_context), for every list of non-empty strings that hold no
\* separator.
C30_ListFieldRoundTrips ==
    (contextField # NoField /\ CleanList(fieldOut))
        => ItemTexts(contextField) = ItemTexts(fieldOut)

====
